---- MODULE Spec2Model ----
(***************************************************************************)
(* Model of the Lumen chat application:                                    *)
(*   - src/app/api/chat/route.ts : the rule-based reply endpoint           *)
(*   - src/app/page.tsx          : the client page (HomePage, sendMessage) *)
(*                                                                         *)
(* JavaScript strings are TLA+ strings; Len, SubSeq and \o act on them     *)
(* character by character.  The em dash of the source literals is written  *)
(* "--" because module text is ASCII.                                      *)
(***************************************************************************)
EXTENDS Integers, Sequences, FiniteSets, TLC

VARIABLES
  messages,     \* page.tsx:27   React state: the conversation
  input,        \* page.tsx:34   React state: the text of the input box
  suggestions,  \* page.tsx:35   React state: the suggestion buttons
  isLoading,    \* page.tsx:36   React state: the loading flag
  rendered,     \* the state captured by the last committed render (closures, DOM)
  inflight,     \* the sendMessage invocations suspended at an await
  posts,        \* the bodies POSTed to /api/chat so far, in order
  lastCall,     \* which way the latest sendMessage call went (page.tsx:48)
  reqBody,      \* endpoint: the body of the request being handled
  resp          \* endpoint: the response produced for reqBody

vars == <<messages, input, suggestions, isLoading, rendered, inflight, posts,
          lastCall, reqBody, resp>>

clientVars == <<messages, input, suggestions, isLoading, rendered, inflight,
                posts, lastCall>>

endpointVars == <<reqBody, resp>>

-----------------------------------------------------------------------------
(* Bounds *)

MaxBodyLen == 2      \* longest messages array of a request in SpecEndpoint
MaxSends == 2        \* accepted submissions per client session

-----------------------------------------------------------------------------
(* JavaScript string primitives *)

LowerCaseLetters == "abcdefghijklmnopqrstuvwxyz"

UpperCaseLetters == "ABCDEFGHIJKLMNOPQRSTUVWXYZ"

Digits == "0123456789"

CharAt(s, i) == SubSeq(s, i, i)

CharIn(c, class) == \E i \in 1..Len(class) : CharAt(class, i) = c

\* /\s/ and the characters String.prototype.trim strips
IsSpace(c) == c \in {" ", "\t", "\n", "\r"}

toLowerChar(c) ==
  IF CharIn(c, UpperCaseLetters)
    THEN CharAt(LowerCaseLetters,
                CHOOSE i \in 1..26 : CharAt(UpperCaseLetters, i) = c)
    ELSE c

RECURSIVE toLowerCase(_)
toLowerCase(s) ==
  IF s = "" THEN "" ELSE toLowerChar(Head(s)) \o toLowerCase(Tail(s))

trim(s) ==
  LET keep == {i \in 1..Len(s) : ~IsSpace(CharAt(s, i))}
  IN  IF keep = {} THEN ""
      ELSE SubSeq(s, CHOOSE i \in keep : \A j \in keep : i <= j,
                     CHOOSE i \in keep : \A j \in keep : i >= j)

\* String.prototype.includes
includes(s, p) ==
  \E i \in 1..(Len(s) - Len(p) + 1) : SubSeq(s, i, i + Len(p) - 1) = p

\* RegExp.prototype.test for an unanchored alternation of literals
test(alternatives, s) == \E p \in alternatives : includes(s, p)

startsWith(s, p) == Len(s) >= Len(p) /\ SubSeq(s, 1, Len(p)) = p

-----------------------------------------------------------------------------
(* route.ts: fixed values *)

agentName == "Lumen"

greetingPhrases ==
  << "Hi there! What are we exploring today?",
     "Hey! I'm glad you're here. What's on your mind?",
     "Hello! Ready when you are--just share a thought." >>

\* values of Math.floor(Math.random() * greetingPhrases.length)
RandomIndex == 0..(Len(greetingPhrases) - 1)

\* values of timeFormatter.format(new Date())
FormattedTimes == {"Nov 2, 2026, 9:41 AM", "Nov 2, 2026, 6:05 PM"}

-----------------------------------------------------------------------------
(* route.ts: JSON values reaching the endpoint *)

\* A JSON value in the position of a string field: a string, a number, or
\* nothing at all (the property is missing, so reading it gives undefined).
Str(s) == [t |-> "string", v |-> s]

Undefined == [t |-> "undefined", v |-> ""]

Num == [t |-> "number", v |-> "42"]

\* An element of the messages array: an object, null, or a primitive.
Obj(role, content) == [t |-> "object", role |-> role, content |-> content]

Null == [t |-> "null", role |-> Undefined, content |-> Undefined]

Prim == [t |-> "number", role |-> Undefined, content |-> Undefined]

Msg(role, text) == Obj(Str(role), Str(text))

\* Reading a property of a message element: of null it throws a TypeError.
Throws(element) == element.t = "null"

IsUser(element) == element.role = Str("user")

IsAssistant(element) == element.role = Str("assistant")

-----------------------------------------------------------------------------
(* route.ts: extractLastUserMessage, lines 23-31 *)

\* The loop of lines 24-29 from position index downwards.  The result is the
\* position of the message returned, 0 for undefined, or -1 when reading
\* candidate.role throws.
RECURSIVE scanForUser(_, _)
scanForUser(msgs, index) ==
  IF index < 1 THEN 0
  ELSE IF Throws(msgs[index]) THEN -1
  ELSE IF IsUser(msgs[index]) THEN index
  ELSE scanForUser(msgs, index - 1)

extractLastUserMessage(msgs) == scanForUser(msgs, Len(msgs))

-----------------------------------------------------------------------------
(* route.ts: summarizeUserThemes, lines 33-56 *)

IsAlnum(c) == CharIn(c, LowerCaseLetters) \/ CharIn(c, Digits)

\* .replace(/[^a-z0-9\s]/g, " ")
RECURSIVE replaceNonAlnum(_)
replaceNonAlnum(s) ==
  IF s = "" THEN ""
  ELSE (IF IsAlnum(Head(s)) \/ IsSpace(Head(s)) THEN Head(s) ELSE " ")
       \o replaceNonAlnum(Tail(s))

\* .split(/\s+/).filter(Boolean): the non-empty pieces between whitespace
RECURSIVE splitWords(_, _)
splitWords(s, cur) ==
  LET done == IF cur = "" THEN <<>> ELSE <<cur>>
  IN  IF s = "" THEN done
      ELSE IF IsSpace(Head(s)) THEN done \o splitWords(Tail(s), "")
      ELSE splitWords(Tail(s), cur \o Head(s))

termsOf(content) == splitWords(replaceNonAlnum(toLowerCase(content)), "")

\* keywords.set(term, (keywords.get(term) ?? 0) + 1) on a Map kept as the
\* sequence of its entries <<term, weight>> in insertion order
setWeight(keywords, term) ==
  IF \E i \in 1..Len(keywords) : keywords[i][1] = term
    THEN [i \in 1..Len(keywords) |->
            IF keywords[i][1] = term
              THEN <<term, keywords[i][2] + 1>> ELSE keywords[i]]
    ELSE Append(keywords, <<term, 1>>)

\* lines 44-50: the inner loop over the terms of one message
RECURSIVE countTerms(_, _)
countTerms(keywords, terms) ==
  IF terms = <<>> THEN keywords
  ELSE countTerms(IF Len(Head(terms)) < 4 THEN keywords
                  ELSE setWeight(keywords, Head(terms)),
                  Tail(terms))

\* lines 35-51: the outer loop; only messages of role "user" count
RECURSIVE countKeywords(_, _)
countKeywords(keywords, msgs) ==
  IF msgs = <<>> THEN keywords
  ELSE countKeywords(IF IsUser(Head(msgs))
                       THEN countTerms(keywords, termsOf(Head(msgs).content.v))
                       ELSE keywords,
                     Tail(msgs))

\* .sort((a, b) => b[1] - a[1]): descending weight, stable
sortByWeight(entries) ==
  LET n == Len(entries)
      before(j, i) == \/ entries[j][2] > entries[i][2]
                      \/ entries[j][2] = entries[i][2] /\ j < i
      rank(i) == Cardinality({j \in 1..n : before(j, i)}) + 1
  IN  [k \in 1..n |-> entries[CHOOSE i \in 1..n : rank(i) = k]]

\* summarizeUserThemes throws when it reads .role of null (line 36) or calls
\* .toLowerCase on the content of a user message that is not a string (39-40)
summarizeUserThemesThrows(msgs) ==
  \E i \in 1..Len(msgs) :
    \/ Throws(msgs[i])
    \/ IsUser(msgs[i]) /\ msgs[i].content.t # "string"

summarizeUserThemes(msgs) ==
  LET sorted == sortByWeight(countKeywords(<<>>, msgs))
      top == SubSeq(sorted, 1, IF Len(sorted) < 3 THEN Len(sorted) ELSE 3)
  IN  [i \in 1..Len(top) |-> top[i][1]]

\* Array.prototype.join
RECURSIVE join(_, _)
join(strings, sep) ==
  IF strings = <<>> THEN ""
  ELSE IF Len(strings) = 1 THEN strings[1]
  ELSE strings[1] \o sep \o join(Tail(strings), sep)

-----------------------------------------------------------------------------
(* route.ts: buildSuggestions, lines 58-91 *)

timeSuggestions ==
  << "Help me plan the rest of my day",
     "Remind me of something important later",
     "Suggest a quick reflection exercise" >>

productivitySuggestions ==
  << "Break my work into focused blocks",
     "Give me a motivation boost",
     "Help me celebrate a recent win" >>

moodSuggestions ==
  << "Share a grounding exercise",
     "Help me reframe a negative thought",
     "Suggest a relaxing break idea" >>

planningSuggestions ==
  << "Create a quick checklist",
     "Help me prioritize tasks",
     "Draft a mini roadmap" >>

generalSuggestions ==
  << "Give me a small challenge",
     "Share a curious fact",
     "Help me set a tiny goal" >>

buildSuggestions(topic) ==
  CASE topic = "time" -> timeSuggestions
    [] topic = "productivity" -> productivitySuggestions
    [] topic = "mood" -> moodSuggestions
    [] topic = "planning" -> planningSuggestions
    [] OTHER -> generalSuggestions

-----------------------------------------------------------------------------
(* route.ts: detectTopic, lines 93-108 *)

topicTimeTest(normalized) ==
  test({"time", "date", "clock", "today", "tonight", "morning", "evening"},
       normalized)

topicPlanningTest(normalized) ==
  test({"plan", "schedule", "organize", "roadmap", "timeline"}, normalized)

topicProductivityTest(normalized) ==
  test({"focus", "productive", "productivity", "motivation", "work", "study"},
       normalized)

topicMoodTest(normalized) ==
  test({"sad", "happy", "mood", "feel", "feeling", "tired", "excited",
        "stressed", "stress"}, normalized)

\* the productivity test placed before the planning test
detectTopicProductivityFirst(text) ==
  LET normalized == toLowerCase(text)
  IN  IF topicTimeTest(normalized) THEN "time"
      ELSE IF topicProductivityTest(normalized) THEN "productivity"
      ELSE IF topicPlanningTest(normalized) THEN "planning"
      ELSE IF topicMoodTest(normalized) THEN "mood"
      ELSE "general"

detectTopic(text) ==
  LET normalized == toLowerCase(text)
  IN  IF topicTimeTest(normalized) THEN "time"
      ELSE IF topicPlanningTest(normalized) THEN "planning"
      ELSE IF topicProductivityTest(normalized) THEN "productivity"
      ELSE IF topicMoodTest(normalized) THEN "mood"
      ELSE "general"

-----------------------------------------------------------------------------
(* route.ts: craftReply, lines 110-213 *)

\* /^(hi|hello|hey|yo|hiya|sup)([^a-z]|$)/
greetingTest(normalized) ==
  \E w \in {"hi", "hello", "hey", "yo", "hiya", "sup"} :
    /\ startsWith(normalized, w)
    /\ \/ Len(normalized) = Len(w)
       \/ ~CharIn(CharAt(normalized, Len(w) + 1), LowerCaseLetters)

nameTest(normalized) == includes(normalized, "your name")

timeTest(normalized) == test({"time", "date", "day is it"}, normalized)

helpTest(normalized) == test({"help", "advice", "support"}, normalized)

planningTest(normalized) ==
  test({"plan", "schedule", "organize", "roadmap"}, normalized)

fatigueTest(normalized) ==
  test({"tired", "stressed", "overwhelmed", "anxious", "burned", "burnt",
        "exhausted"}, normalized)

focusTest(normalized) ==
  test({"focus", "productive", "productivity", "motivation", "bored",
        "procrastinate"}, normalized)

gratitudeTest(normalized) ==
  test({"thank", "thanks", "thank you", "appreciate"}, normalized)

identityTest(normalized) == test({"who are you", "what are you"}, normalized)

tunedInReply ==
  "I'm tuned in! Whenever you're ready, let me know what's on your radar."

takeYourTimeReply ==
  "Take your time--I'm right here whenever you feel like sharing something."

greetingReply(rnd) ==
  greetingPhrases[rnd + 1]
    \o " Also, what's one thing you're curious about right now?"

nameReply ==
  "I'm " \o agentName \o "! Think of me as your upbeat co-pilot for ideas, plans, and reflections. What's next on your mind?"

timeReply(time) ==
  "Right now it's " \o time \o ". Want me to help block out the next hour or sketch a mini plan?"

helpReply ==
  "You've got my full attention. Give me a sentence or two about what you want help with, and I'll guide you through it step by step."

planningReply ==
  "Let's architect something useful. Start with the big milestone, then we can break it into 3 bite-sized moves. What milestone should we anchor on?"

fatigueReply ==
  "Sounds like your energy is running low. Let's find a micro-reset: deep breath, unclench your shoulders, then name one win from today--no matter how small. Want a few reset ideas?"

focusReply ==
  "We can spark some momentum. What's the next action you'd feel okay doing in the next 10 minutes? I'll help you lock it in and keep it light."

gratitudeReply ==
  "Always happy to help! If anything else pops up--even a tiny question--just drop it here."

identityReply ==
  "I'm " \o agentName \o ", a conversational agent built to keep you company, offer structure, and nudge you toward momentum. Ask me for ideas, plans, or just to think out loud."

\* lines 202-212
genericReply(themes, recentAssistant) ==
  LET reflection == IF Len(themes) > 0
                      THEN " I'm picking up on themes like "
                             \o join(themes, ", ") \o "."
                      ELSE ""
      callback == IF recentAssistant
                    THEN " I remember what we were just discussing, so let's build on it."
                    ELSE ""
  IN  "Got it. " \o callback \o reflection
        \o " Here's how we can tackle that: describe the outcome you want, list the constraints, and we'll map the next move together."

Returned(reply, topic) == [threw |-> FALSE, reply |-> reply, topic |-> topic]

Thrown == [threw |-> TRUE, reply |-> "", topic |-> ""]

\* the planning pattern tested before the help pattern
dispatchPlanningBeforeHelp(normalized, topic, themes, recentAssistant, rnd, time) ==
  IF greetingTest(normalized) THEN Returned(greetingReply(rnd), topic)
  ELSE IF nameTest(normalized) THEN Returned(nameReply, topic)
  ELSE IF timeTest(normalized) THEN Returned(timeReply(time), "time")
  ELSE IF planningTest(normalized) THEN Returned(planningReply, "planning")
  ELSE IF helpTest(normalized) THEN Returned(helpReply, topic)
  ELSE IF fatigueTest(normalized) THEN Returned(fatigueReply, "mood")
  ELSE IF focusTest(normalized) THEN Returned(focusReply, "productivity")
  ELSE IF gratitudeTest(normalized) THEN Returned(gratitudeReply, topic)
  ELSE IF identityTest(normalized) THEN Returned(identityReply, topic)
  ELSE Returned(genericReply(themes, recentAssistant), topic)

\* lines 139-212: the second-stage dispatch on the trimmed, lowercased text
dispatch(normalized, topic, themes, recentAssistant, rnd, time) ==
  IF greetingTest(normalized) THEN Returned(greetingReply(rnd), topic)
  ELSE IF nameTest(normalized) THEN Returned(nameReply, topic)
  ELSE IF timeTest(normalized) THEN Returned(timeReply(time), "time")
  ELSE IF helpTest(normalized) THEN Returned(helpReply, topic)
  ELSE IF planningTest(normalized) THEN Returned(planningReply, "planning")
  ELSE IF fatigueTest(normalized) THEN Returned(fatigueReply, "mood")
  ELSE IF focusTest(normalized) THEN Returned(focusReply, "productivity")
  ELSE IF gratitudeTest(normalized) THEN Returned(gratitudeReply, topic)
  ELSE IF identityTest(normalized) THEN Returned(identityReply, topic)
  ELSE Returned(genericReply(themes, recentAssistant), topic)

\* rnd is the value Math.random gives, time the formatted wall-clock time
craftReply(msgs, rnd, time) ==
  IF Len(msgs) = 0 THEN Returned(greetingPhrases[rnd + 1], "general")
  ELSE
    LET last == extractLastUserMessage(msgs)
    IN  IF last = -1 THEN Thrown
        ELSE IF last = 0 THEN Returned(tunedInReply, "general")
        ELSE IF msgs[last].content.t # "string" THEN Thrown   \* .trim()
        ELSE
          LET text == trim(msgs[last].content.v)
              normalized == toLowerCase(text)
              topic == detectTopic(text)
              recentAssistant == \E i \in 1..Len(msgs) : IsAssistant(msgs[i])
          IN  IF summarizeUserThemesThrows(msgs) THEN Thrown
              ELSE IF text = "" THEN Returned(takeYourTimeReply, topic)
              ELSE dispatch(normalized, topic, summarizeUserThemes(msgs),
                            recentAssistant, rnd, time)

-----------------------------------------------------------------------------
(* route.ts: POST, lines 215-231 *)

\* The request body: text that is not JSON, the JSON value null, or another
\* JSON value whose messages property is missing, a string, or an array.
InvalidJson == [json |-> "invalid", t |-> "undefined", messages |-> <<>>]

NullBody == [json |-> "null", t |-> "undefined", messages |-> <<>>]

NoMessagesBody == [json |-> "value", t |-> "undefined", messages |-> <<>>]

StringMessagesBody == [json |-> "value", t |-> "string", messages |-> <<>>]

ArrayBody(msgs) == [json |-> "value", t |-> "array", messages |-> msgs]

fallbackReply ==
  "Whoops, my mind went blank for a second. Could you repeat that?"

Response(status, reply, sugg) ==
  [status |-> status, reply |-> reply, suggestions |-> sugg]

fallbackResponse == Response(500, fallbackReply, buildSuggestions("general"))

POST(body, rnd, time) ==
  IF body.json = "invalid" THEN fallbackResponse      \* request.json() rejects
  ELSE IF body.json = "null" THEN fallbackResponse    \* body.messages of null
  ELSE
    LET msgs == IF body.t = "array" THEN body.messages ELSE <<>>
        crafted == craftReply(msgs, rnd, time)
    IN  IF crafted.threw THEN fallbackResponse
        ELSE Response(200, crafted.reply, buildSuggestions(crafted.topic))

-----------------------------------------------------------------------------
(* The endpoint as a state machine: POST answers the request it was given *)

\* Texts of user messages in request bodies
UserTexts ==
  { "", "  ", "Hello there", " Hey ", "history lesson", "What's your name?",
    "Plan: what day is it?", "sometimes I plan", "Update me",
    "I need help planning my week", "Organize my work schedule",
    "Help me plan my work day",
    "I'm exhausted and stressed", "stay focused", "thanks a lot",
    "who are you", "I love hiking and climbing", "climbing is fun" }

AssistantTexts == { "Hi there! What are we exploring today?", "plan" }

\* Elements a messages array can hold: well-formed messages, and the values
\* the unchecked cast of line 217 lets through
Elements ==
  {Msg("user", t) : t \in UserTexts}
    \cup {Msg("assistant", t) : t \in AssistantTexts}
    \cup { Null, Prim, Obj(Str("user"), Undefined), Obj(Str("user"), Num),
           Obj(Undefined, Str("Hello there")) }

RECURSIVE SeqsUpTo(_, _)
SeqsUpTo(S, n) ==
  IF n = 0 THEN {<<>>}
  ELSE LET shorter == SeqsUpTo(S, n - 1)
       IN  shorter \cup {Append(q, e) : q \in shorter, e \in S}

Bodies ==
  {InvalidJson, NullBody, NoMessagesBody, StringMessagesBody}
    \cup {ArrayBody(msgs) : msgs \in SeqsUpTo(Elements, MaxBodyLen)}

NoResponse == Response(0, "", <<>>)

\* The endpoint runs POST on the request and responds
Handle(rnd, time) ==
  /\ resp = NoResponse
  /\ resp' = POST(reqBody, rnd, time)
  /\ UNCHANGED <<reqBody>>
  /\ UNCHANGED clientVars

-----------------------------------------------------------------------------
(* page.tsx: HomePage *)

defaultSuggestions ==
  << "What can you help me with today?",
     "Give me a quick productivity tip",
     "Help me plan my next break" >>

initialGreeting ==
  "Hey there! I'm " \o agentName \o ", your upbeat companion. Tell me what's on your mind and let's make progress together."

clientErrorText ==
  "Hmm, something glitched on my end. Mind trying that again in a moment?"

\* The creation instant of a message is read by no code but the list keys
\* of line 136; every message carries the same token for it.
ConversationMessage(role, content) ==
  [role |-> role, content |-> content, timestamp |-> "Date.now()"]

\* Texts a user types into the input box
InputTexts == {"  ", " Hello there "}

\* What a render captures: the closures of sendMessage and handleSubmit and
\* the disabled attributes of the DOM read these values (lines 107, 115, 147-170)
Snapshot(msgs, inp, sugg, loading) ==
  [messages |-> msgs, input |-> inp, suggestions |-> sugg,
   isLoading |-> loading]

\* lines 69-72: the .map that keeps role and content and drops the timestamp
requestMessages(msgs) ==
  [i \in 1..Len(msgs) |-> [role |-> msgs[i].role, content |-> msgs[i].content]]

postedWithoutNewMessage(closureMessages, newMessage) ==
  requestMessages(closureMessages)

\* lines 68-73: the messages of the request body, built from the messages
\* the closure captured and the new message
postedMessages(closureMessages, newMessage) ==
  requestMessages(Append(closureMessages, newMessage))

\* JSON.stringify on the client, request.json() on the endpoint
toRequestBody(posted) ==
  ArrayBody([i \in 1..Len(posted) |-> Msg(posted[i].role, posted[i].content)])

\* fetch settled: rejected (network error) or resolved with a Response
Rejected == [settled |-> "rejected", response |-> NoResponse]

Resolved(response) == [settled |-> "resolved", response |-> response]

Pending == [settled |-> "pending", response |-> NoResponse]

okForAnyStatus(response) == response.status >= 200

\* Response.ok
ok(response) == response.status >= 200 /\ response.status <= 299

badGateway == Response(502, "Bad Gateway", <<>>)

RemoveAt(q, i) == SubSeq(q, 1, i - 1) \o SubSeq(q, i + 1, Len(q))

\* lines 27-36: the state at mount
ClientInit ==
  /\ messages = <<ConversationMessage("assistant", initialGreeting)>>
  /\ input = ""
  /\ suggestions = defaultSuggestions
  /\ isLoading = FALSE
  /\ rendered = Snapshot(messages, input, suggestions, isLoading)
  /\ inflight = <<>>
  /\ posts = <<>>
  /\ lastCall = "none"

Init ==
  /\ ClientInit
  /\ reqBody = NoMessagesBody
  /\ resp = NoResponse

\* line 150: onChange of the input box; the element is disabled while the
\* rendered isLoading is true.  The update is flushed before the next event.
ChangeInput(value) ==
  /\ ~rendered.isLoading
  /\ value # input
  /\ input' = value
  /\ rendered' = Snapshot(messages, value, suggestions, isLoading)
  /\ UNCHANGED <<messages, suggestions, isLoading, inflight, posts, lastCall,
                 reqBody, resp>>

guardIgnoringLoading(trimmed, loading) ==
  IF trimmed = "" THEN "blank" ELSE "sent"

\* line 48: !trimmed || isLoading, the left operand first
guard(trimmed, loading) ==
  IF trimmed = "" THEN "blank"
  ELSE IF loading THEN "busy"
  ELSE "sent"

\* lines 45-74: sendMessage up to its first await.  isLoading and messages
\* of lines 48 and 69 are the values the closure captured at the last render;
\* the updater of line 58 runs on the current state.  The three updates are
\* made inside a DOM event handler and rendered before the next event.
sendMessage(text) ==
  LET trimmed == trim(text)
      newMessage == ConversationMessage("user", trimmed)
      posted == postedMessages(rendered.messages, newMessage)
  IN  IF guard(trimmed, rendered.isLoading) # "sent"
        THEN /\ lastCall' = guard(trimmed, rendered.isLoading)
             /\ UNCHANGED <<messages, input, suggestions, isLoading, rendered,
                            inflight, posts>>
        ELSE /\ Len(posts) < MaxSends
             /\ messages' = Append(messages, newMessage)
             /\ input' = ""
             /\ isLoading' = TRUE
             /\ posts' = Append(posts, posted)
             /\ inflight' = Append(inflight,
                                   [stage |-> "fetch", body |-> posted,
                                    result |-> Pending])
             /\ rendered' = Snapshot(messages', input', suggestions, isLoading')
             /\ lastCall' = "sent"
             /\ UNCHANGED suggestions

\* lines 110-116: the form is submitted
handleSubmit ==
  /\ sendMessage(rendered.input)
  /\ UNCHANGED <<reqBody, resp>>

\* lines 118-123, 160-169: a suggestion button is clicked
handleSuggestion(k) ==
  /\ k \in 1..Len(rendered.suggestions)
  /\ sendMessage(rendered.suggestions[k])
  /\ UNCHANGED <<reqBody, resp>>

\* line 63: the fetch of invocation i settles: the network fails, the
\* endpoint answers the posted body, or something in front of it answers 502
FetchSettles(i, result) ==
  /\ i \in 1..Len(inflight)
  /\ inflight[i].stage = "fetch"
  /\ inflight' = [inflight EXCEPT ![i].stage = "fetched", ![i].result = result]
  /\ UNCHANGED <<messages, input, suggestions, isLoading, rendered, posts,
                 lastCall, reqBody, resp>>

FetchResults(body) ==
  {Rejected, Resolved(badGateway), Resolved(fallbackResponse)}
    \cup {Resolved(POST(toRequestBody(body), rnd, time)) :
            rnd \in RandomIndex, time \in FormattedTimes}

\* the catch block overwriting the user's message instead of appending
catchOverwritingLast(i) ==
  /\ messages' = [messages EXCEPT ![Len(messages)] =
                     ConversationMessage("assistant", clientErrorText)]
  /\ suggestions' = defaultSuggestions
  /\ isLoading' = FALSE
  /\ inflight' = RemoveAt(inflight, i)

\* the catch block without the finally block
catchWithoutFinally(i) ==
  /\ messages' = Append(messages,
                        ConversationMessage("assistant", clientErrorText))
  /\ suggestions' = defaultSuggestions
  /\ isLoading' = isLoading
  /\ inflight' = RemoveAt(inflight, i)

\* the catch block only logging the error
catchSilently(i) ==
  /\ messages' = messages
  /\ suggestions' = defaultSuggestions
  /\ isLoading' = FALSE
  /\ inflight' = RemoveAt(inflight, i)

\* lines 91-105: the catch block and the finally block
catchAndFinally(i) ==
  /\ messages' = Append(messages,
                        ConversationMessage("assistant", clientErrorText))
  /\ suggestions' = defaultSuggestions
  /\ isLoading' = FALSE
  /\ inflight' = RemoveAt(inflight, i)

\* lines 76-80: sendMessage resumes after the fetch
AfterFetch(i) ==
  /\ i \in 1..Len(inflight)
  /\ inflight[i].stage = "fetched"
  /\ IF inflight[i].result.settled = "rejected"
          \/ ~ok(inflight[i].result.response)
       THEN catchAndFinally(i)
       ELSE /\ inflight' = [inflight EXCEPT ![i].stage = "json"]
            /\ UNCHANGED <<messages, suggestions, isLoading>>
  /\ UNCHANGED <<input, rendered, posts, lastCall, reqBody, resp>>

\* line 80: response.json() settles: the payload is read, or reading fails
JsonSettles(i, parsed) ==
  /\ i \in 1..Len(inflight)
  /\ inflight[i].stage = "json"
  /\ inflight' = [inflight EXCEPT
                    ![i].stage = "parsed",
                    ![i].result = IF parsed THEN @ ELSE Rejected]
  /\ UNCHANGED <<messages, input, suggestions, isLoading, rendered, posts,
                 lastCall, reqBody, resp>>

\* lines 82-105: sendMessage resumes with the payload
AfterJson(i) ==
  /\ i \in 1..Len(inflight)
  /\ inflight[i].stage = "parsed"
  /\ IF inflight[i].result.settled = "rejected"
       THEN catchAndFinally(i)
       ELSE LET payload == inflight[i].result.response
            IN  /\ messages' =
                     Append(messages,
                            ConversationMessage("assistant", payload.reply))
                /\ suggestions' = IF Len(payload.suggestions) > 0
                                    THEN payload.suggestions
                                    ELSE defaultSuggestions
                /\ isLoading' = FALSE
                /\ inflight' = RemoveAt(inflight, i)
  /\ UNCHANGED <<input, rendered, posts, lastCall, reqBody, resp>>

\* React commits a render for the updates made outside an event handler
Render ==
  /\ rendered # Snapshot(messages, input, suggestions, isLoading)
  /\ rendered' = Snapshot(messages, input, suggestions, isLoading)
  /\ UNCHANGED <<messages, input, suggestions, isLoading, inflight, posts,
                 lastCall, reqBody, resp>>

Next ==
  \/ \E value \in InputTexts : ChangeInput(value)
  \/ handleSubmit
  \/ \E k \in 1..3 : handleSuggestion(k)
  \/ \E i \in DOMAIN inflight :
       \E result \in FetchResults(inflight[i].body) : FetchSettles(i, result)
  \/ \E i \in DOMAIN inflight : AfterFetch(i)
  \/ \E i \in DOMAIN inflight, parsed \in BOOLEAN : JsonSettles(i, parsed)
  \/ \E i \in DOMAIN inflight : AfterJson(i)
  \/ Render

Spec == Init /\ [][Next]_vars

\* The event loop runs a continuation whose promise has settled, and React
\* commits a scheduled render; the network owes nothing.
FairSpec ==
  /\ Spec
  /\ WF_vars(\E i \in DOMAIN inflight : AfterFetch(i))
  /\ WF_vars(\E i \in DOMAIN inflight : AfterJson(i))
  /\ WF_vars(Render)

InitEndpoint ==
  /\ ClientInit
  /\ reqBody \in Bodies
  /\ resp = NoResponse

NextEndpoint ==
  \E rnd \in RandomIndex, time \in FormattedTimes : Handle(rnd, time)

SpecEndpoint == InitEndpoint /\ [][NextEndpoint]_vars

-----------------------------------------------------------------------------
(* Properties of the client, checked under Spec and FairSpec *)

LastMessage == messages[Len(messages)]

\* C1: the client never has more than one chat request outstanding, and a
\* sendMessage call made while a request is outstanding appends no user
\* message and issues no POST.
C1_OneRequestOutstanding ==
  [][ /\ Len(inflight') <= 1
      /\ inflight # <<>> =>
           /\ posts' = posts
           /\ ~(/\ Len(messages') = Len(messages) + 1
                /\ messages'[Len(messages')].role = "user") ]_vars

\* a sendMessage call was made while the request was in flight, and returned
\* at line 49
C1_Witness ==
  /\ lastCall = "busy"
  /\ Len(inflight) = 1
  /\ inflight[1].stage = "fetch"
  /\ Len(posts) = 1

\* C4: the conversation is append-only: every step leaves the message list
\* unchanged or adds exactly one message at its end.
C4_AppendOnly ==
  [][ \/ messages' = messages
      \/ /\ Len(messages') = Len(messages) + 1
         /\ SubSeq(messages', 1, Len(messages)) = messages ]_vars

\* a request was accepted and failed, so both append sites have run
C4_Witness ==
  /\ Len(messages) = 3
  /\ messages[2].role = "user"
  /\ messages[3].content = clientErrorText

\* C5: on every accepted submission the posted message list is the whole
\* conversation as it stands right after the new user message is appended.
C5_PostsWholeConversation ==
  [][ posts' # posts =>
        /\ posts' = Append(posts, [i \in 1..Len(messages') |->
                                     [role |-> messages'[i].role,
                                      content |-> messages'[i].content]])
        /\ messages'[Len(messages')].role = "user"
        /\ Len(messages') = Len(messages) + 1 ]_vars

\* a second submission was accepted after the first had been answered
C5_Witness ==
  /\ Len(posts) = 2
  /\ Len(posts[2]) = 4
  /\ Len(inflight) = 1

FailedCall(call) ==
  \/ /\ call.stage = "fetched"
     /\ \/ call.result.settled = "rejected"
        \/ call.result.response.status < 200
        \/ call.result.response.status > 299
  \/ /\ call.stage = "parsed"
     /\ call.result.settled = "rejected"

\* C6: when a request fails (network error, or a status that is not OK, the
\* endpoint's 500 fallback included) the client appends exactly one assistant
\* message with the fixed error text and resets the suggestions to the
\* default set; nothing of the failed response is shown.
C6_FailureShowsFixedError ==
  [][ \A i \in DOMAIN inflight :
        (FailedCall(inflight[i]) /\ inflight' # inflight) =>
          /\ messages' = Append(messages,
                                ConversationMessage("assistant", clientErrorText))
          /\ suggestions' = defaultSuggestions ]_vars

\* the second request failed after the first had replaced the suggestions
C6_Witness ==
  /\ Len(messages) = 5
  /\ messages[3].content # clientErrorText
  /\ messages[5].content = clientErrorText
  /\ suggestions = defaultSuggestions
  /\ inflight = <<>>

RequestSettled ==
  \E i \in DOMAIN inflight :
    FailedCall(inflight[i]) \/ inflight[i].stage = "parsed"

InputEnabled == ~isLoading /\ ~rendered.isLoading

\* C7: every accepted submission whose request settles is eventually followed
\* by the loading flag being cleared and the input enabled again; the flag is
\* set only while a sendMessage call is still waiting.
C7_LoadingEventuallyCleared ==
  /\ RequestSettled ~> InputEnabled
  /\ [](isLoading => inflight # <<>>)

\* a request was answered and the page rendered with the input enabled
C7_Witness ==
  /\ InputEnabled
  /\ Len(messages) = 3
  /\ Len(posts) = 1
  /\ messages[3].content # clientErrorText

\* C10: the conversation starts with the assistant greeting, roles alternate
\* strictly, and the last message is a user message exactly while a request
\* is outstanding.
C10_RolesAlternate ==
  /\ messages[1].role = "assistant"
  /\ messages[1].content = initialGreeting
  /\ \A i \in 1..Len(messages) :
       messages[i].role = IF i % 2 = 1 THEN "assistant" ELSE "user"
  /\ (LastMessage.role = "user") <=> (inflight # <<>>)
  /\ isLoading <=> (inflight # <<>>)

\* two submissions, one answered and one failed, each followed by one message
C10_Witness ==
  /\ Len(messages) = 5
  /\ inflight = <<>>
  /\ messages[3].content = clientErrorText
  /\ messages[5].content # clientErrorText

-----------------------------------------------------------------------------
(* Properties of the endpoint, checked under SpecEndpoint *)

Responded == resp # NoResponse

\* the list craftReply is called with (line 218)
HistoryOf(body) == IF body.t = "array" THEN body.messages ELSE <<>>

\* a history in the sense of the data model: every element is a Message
WellFormed(msgs) ==
  \A i \in 1..Len(msgs) :
    /\ msgs[i].t = "object"
    /\ msgs[i].role \in {Str("user"), Str("assistant")}
    /\ msgs[i].content.t = "string"

HasUserMessage(msgs) == \E i \in 1..Len(msgs) : msgs[i].role = Str("user")

LastUserText(msgs) ==
  msgs[CHOOSE i \in 1..Len(msgs) :
         /\ msgs[i].role = Str("user")
         /\ \A j \in (i + 1)..Len(msgs) : msgs[j].role # Str("user")].content.v

\* C2: craftReply cannot fail: for every array taken from the messages field
\* of the request body it returns a reply and a topic and never throws.
C2_CraftReplyNeverThrows ==
  (Responded /\ reqBody.json = "value" /\ reqBody.t = "array") =>
    /\ resp.status = 200
    /\ \A rnd \in RandomIndex, time \in FormattedTimes :
         ~craftReply(reqBody.messages, rnd, time).threw

\* C3: for every body that is valid JSON whose messages field is absent or
\* not an array, the endpoint responds 200 with a reply of the greeting pool
\* and the default-topic suggestions.
C3_NonArrayMessagesGreets ==
  (Responded /\ reqBody.json # "invalid" /\ reqBody.t # "array") =>
    /\ resp.status = 200
    /\ \E k \in 1..Len(greetingPhrases) : resp.reply = greetingPhrases[k]
    /\ resp.suggestions = generalSuggestions

MatchesPlanningNotTime(msgs) ==
  /\ WellFormed(msgs)
  /\ HasUserMessage(msgs)
  /\ test({"plan", "schedule", "organize", "roadmap", "timeline"},
          toLowerCase(LastUserText(msgs)))
  /\ ~test({"time", "date", "clock", "today", "tonight", "morning", "evening"},
           toLowerCase(LastUserText(msgs)))

\* C8 as stated: for every history whose latest user message matches the
\* planning test of the classifier and not its time test, the endpoint
\* returns the planning suggestions.
C8_PlanningSuggestions ==
  (Responded /\ MatchesPlanningNotTime(HistoryOf(reqBody))) =>
    /\ resp.status = 200
    /\ resp.suggestions = planningSuggestions

\* C8 as amended: for every history whose latest user message matches the
\* planning test of the classifier and not its time test, and does not
\* contain "day is it", the endpoint returns the planning suggestions.
C8_PlanningSuggestionsAmended ==
  ( /\ Responded
    /\ MatchesPlanningNotTime(HistoryOf(reqBody))
    /\ ~includes(toLowerCase(LastUserText(HistoryOf(reqBody))), "day is it") )
  =>
    /\ resp.status = 200
    /\ resp.suggestions = planningSuggestions

\* a message matching the planning test and the productivity test, answered
\* with the help template, got the planning suggestions
C8_Witness ==
  /\ Responded
  /\ Len(HistoryOf(reqBody)) = 2
  /\ WellFormed(HistoryOf(reqBody))
  /\ HasUserMessage(HistoryOf(reqBody))
  /\ LastUserText(HistoryOf(reqBody)) = "Help me plan my work day"
  /\ resp.suggestions = planningSuggestions
  /\ resp.reply = helpReply

\* the second-stage patterns as an ordered list of tests
SecondStageTests(n) ==
  << greetingTest(n), nameTest(n), timeTest(n), helpTest(n), planningTest(n),
     fatigueTest(n), focusTest(n), gratitudeTest(n), identityTest(n) >>

SecondStageTemplates(rnd, time) ==
  << greetingReply(rnd), nameReply, timeReply(time), helpReply, planningReply,
     fatigueReply, focusReply, gratitudeReply, identityReply >>

FirstMatch(n) ==
  LET hits == {k \in 1..9 : SecondStageTests(n)[k]}
  IN  IF hits = {} THEN 0 ELSE CHOOSE k \in hits : \A h \in hits : k <= h

ExpectedReply(msgs, rnd, time) ==
  LET n == toLowerCase(trim(LastUserText(msgs)))
  IN  IF FirstMatch(n) > 0 THEN SecondStageTemplates(rnd, time)[FirstMatch(n)]
      ELSE genericReply(summarizeUserThemes(msgs),
                        \E i \in 1..Len(msgs) : msgs[i].role = Str("assistant"))

NonBlankLastUserText(msgs) ==
  /\ WellFormed(msgs)
  /\ HasUserMessage(msgs)
  /\ trim(LastUserText(msgs)) # ""

\* C9: for every history whose latest user message is non-empty after
\* trimming, the reply is the template of the first second-stage pattern, in
\* the order greeting, "your name", time/date, help/advice, planning,
\* fatigue/stress, focus/motivation, gratitude, identity, that matches, and
\* the generic reply only when none of them matches.
C9_FirstMatchWins ==
  (Responded /\ NonBlankLastUserText(HistoryOf(reqBody))) =>
    /\ resp.status = 200
    /\ \E rnd \in RandomIndex, time \in FormattedTimes :
         resp.reply = ExpectedReply(HistoryOf(reqBody), rnd, time)

\* a message matching the help pattern and the planning pattern got the
\* help template
C9_Witness ==
  /\ Responded
  /\ NonBlankLastUserText(HistoryOf(reqBody))
  /\ LastUserText(HistoryOf(reqBody)) = "I need help planning my week"
  /\ FirstMatch(toLowerCase(LastUserText(HistoryOf(reqBody)))) = 4
  /\ resp.reply = helpReply

====
